---- MODULE Spec2Model ----
(***************************************************************************)
(* A model of jumoog/socks5-server: the program (server.go: main) and the  *)
(* SOCKS5 engine it embeds (package socks5: New, Serve, SetIPWhitelist,    *)
(* ServeConn and the two reserved-range predicates).                       *)
(*                                                                         *)
(* Three specifications share the variables and the operators:             *)
(*   Spec      the program: main builds the server from the environment,   *)
(*             then Serve accepts connections and runs one ServeConn per   *)
(*             connection, concurrently;                                   *)
(*   SpecGate  the server set up by a direct caller of the library (New,   *)
(*             any number of SetIPWhitelist calls) or by main, then the    *)
(*             admission gate of ServeConn on one connection, over a wide  *)
(*             set of peer addresses and allow-lists;                      *)
(*   SpecNew   the constructor New applied to a bounded set of Configs.    *)
(***************************************************************************)
EXTENDS Integers, Sequences, FiniteSets, TLC

VARIABLES
    env,        \* the process environment read by main (params)
    mainpc,     \* position of main / of the library's caller
    conf,       \* the *Config handed to New (New fills its defaults in place)
    server,     \* the *Server: config is conf, authMethods, isIPAllowed
    conns,      \* per accepted connection: the state of its ServeConn
    serveErr,   \* what Serve / ListenAndServe returned ("" while running)
    lastCall    \* history: the argument of the latest SetIPWhitelist call

vars == <<env, mainpc, conf, server, conns, serveErr, lastCall>>

(***************************************************************************)
(* Bounds of the model.                                                    *)
(***************************************************************************)
\* connections the listener hands out in one run of Spec
MaxConns == 2
\* entries of an allow-list (ALLOWED_IPS, or the argument of SetIPWhitelist)
MaxList == 2
\* length of Config.AuthMethods in SpecNew
MaxAuth == 2

socks5Version == 5

Range(s) == {s[i] : i \in DOMAIN s}

SeqsUpTo(S, n) == UNION {[1..k -> S] : k \in 0..n}

(***************************************************************************)
(* net/netip.  An Addr is its bit length (0 for the zero Addr, 32 for      *)
(* IPv4, 128 for IPv6), its bytes, and its zone (0: none; zones are        *)
(* numbered in the order of their names).  The text of a host is what      *)
(* net.SplitHostPort returns: dotted fields, a colon form (16 bytes and a  *)
(* zone), or something else.                                               *)
(***************************************************************************)
ZeroAddr == [bitlen |-> 0, b |-> <<>>, zone |-> 0]

Dotted(a, b, c, d) == [form |-> "dotted", b |-> <<a, b, c, d>>, zone |-> 0]

Colon(bytes, zone) == [form |-> "colon", b |-> bytes, zone |-> zone]

Other == [form |-> "other", b |-> <<>>, zone |-> 0]

\* ::ffff:a.b.c.d, the IPv4-mapped IPv6 form of a.b.c.d
Mapped(a, b, c, d) == <<0, 0, 0, 0, 0, 0, 0, 0, 0, 0, 255, 255, a, b, c, d>>

\* 2001:db8::x
Doc6(x) == <<32, 1, 13, 184, 0, 0, 0, 0, 0, 0, 0, 0, 0, 0, 0, x>>

\* netip.ParseAddr, with its error dropped as both callers drop it: a text
\* that does not parse yields the zero Addr.
ParseAddr(h) ==
    IF h.form = "dotted" /\ Len(h.b) = 4 /\ \A i \in 1..4 : h.b[i] \in 0..255
    THEN [bitlen |-> 32, b |-> h.b, zone |-> 0]
    ELSE IF h.form = "colon" /\ Len(h.b) = 16 /\ \A i \in 1..16 : h.b[i] \in 0..255
    THEN [bitlen |-> 128, b |-> h.b, zone |-> h.zone]
    ELSE ZeroAddr

IsValid(ip) == ip.bitlen # 0

Is4(ip) == ip.bitlen = 32

CmpInt(x, y) == IF x < y THEN -1 ELSE IF x > y THEN 1 ELSE 0

RECURSIVE CmpBytes(_, _, _)
CmpBytes(x, y, i) ==
    IF i > Len(x) \/ i > Len(y) THEN 0
    ELSE IF x[i] # y[i] THEN CmpInt(x[i], y[i])
    ELSE CmpBytes(x, y, i + 1)

\* netip.Addr.Compare: bit length first, then the address, then the zone.
Compare(ip, ip2) ==
    IF ip.bitlen # ip2.bitlen THEN CmpInt(ip.bitlen, ip2.bitlen)
    ELSE LET c == CmpBytes(ip.b, ip2.b, 1)
         IN  IF c # 0 THEN c
             ELSE IF ip.bitlen = 128 THEN CmpInt(ip.zone, ip2.zone)
             ELSE 0

Pow2(n) == 2 ^ n

\* the bits of byte i (1-based) that a prefix of the given length covers
PrefixBitsOfByte(bits, i) ==
    LET r == bits - 8 * (i - 1)
    IN  IF r < 0 THEN 0 ELSE IF r > 8 THEN 8 ELSE r

\* netip.Prefix.Contains for a prefix p/bits: same family, no zone, and the
\* first `bits` bits equal.
PrefixContains(p, bits, ip) ==
    /\ IsValid(ip)
    /\ ip.bitlen = p.bitlen
    /\ ip.zone = 0
    /\ \A i \in 1..Len(p.b) :
          LET sh == Pow2(8 - PrefixBitsOfByte(bits, i))
          IN  ip.b[i] \div sh = p.b[i] \div sh

\* netip.MustParsePrefix("172.16.0.0/12")
classBCIDR == [addr |-> ParseAddr(Dotted(172, 16, 0, 0)), bits |-> 12]

\* netip.MustParsePrefix("100.64.0.0/10")
cgnatCIDR == [addr |-> ParseAddr(Dotted(100, 64, 0, 0)), bits |-> 10]

\* the /12 taken for a /16
IsDockerNetworkSlash16(ip) ==
    IF ~IsValid(ip) \/ ~Is4(ip) THEN FALSE
    ELSE PrefixContains(classBCIDR.addr, 16, ip)

IsDockerNetwork(ip) ==
    IF ~IsValid(ip) \/ ~Is4(ip) THEN FALSE
    ELSE PrefixContains(classBCIDR.addr, classBCIDR.bits, ip)

\* the address unmapped before the test, so that ::ffff:a.b.c.d counts
\* as a.b.c.d
IsTailScaleUnmapped(ip) ==
    LET u == IF ip.bitlen = 128 /\ SubSeq(ip.b, 1, 12) = SubSeq(Mapped(0, 0, 0, 0), 1, 12)
             THEN [bitlen |-> 32, b |-> SubSeq(ip.b, 13, 16), zone |-> 0]
             ELSE ip
    IN  IF ~IsValid(u) \/ ~Is4(u) THEN FALSE
        ELSE PrefixContains(cgnatCIDR.addr, cgnatCIDR.bits, u)

IsTailScale(ip) ==
    IF ~IsValid(ip) \/ ~Is4(ip) THEN FALSE
    ELSE PrefixContains(cgnatCIDR.addr, cgnatCIDR.bits, ip)

(***************************************************************************)
(* Authenticators, credential stores and Config.                           *)
(***************************************************************************)
\* a nil CredentialStore
NoCreds == [present |-> FALSE, m |-> {}]

\* StaticCredentials{user: password}
StaticCredentials(user, password) == [present |-> TRUE, m |-> {<<user, password>>}]

NoAuthAuthenticator == [kind |-> "NoAuth", code |-> 0, creds |-> NoCreds]

UserPassAuthenticator(creds) == [kind |-> "UserPass", code |-> 2, creds |-> creds]

\* an Authenticator supplied by the caller, with a method code of its own
CustomAuthenticator(code) == [kind |-> "Custom", code |-> code, creds |-> NoCreds]

GetCode(a) == a.code

NilRules == [kind |-> "nil", pattern |-> <<>>]

PermitAll == [kind |-> "PermitAll", pattern |-> <<>>]

PermitDestAddrPattern(pattern) == [kind |-> "PermitDestAddrPattern", pattern |-> pattern]

\* &socks5.Config{}: every field nil
EmptyConfig ==
    [AuthMethods |-> <<>>, Credentials |-> NoCreds, Resolver |-> "nil",
     Rules |-> NilRules, Logger |-> "nil"]

\* SetIPWhitelist not called yet, and called with a list
NotCalled == [called |-> FALSE, allowedIPs |-> <<>>]

Called(allowedIPs) == [called |-> TRUE, allowedIPs |-> allowedIPs]

\* func(ip) bool { return false }
DenyAll == [set |-> FALSE, allowedIPs |-> <<>>]

EmptyMethods == [k \in {} |-> NoAuthAuthenticator]

NoServer == [constructed |-> FALSE, authMethods |-> EmptyMethods, isIPAllowed |-> DenyAll]

(***************************************************************************)
(* socks5.New.                                                             *)
(***************************************************************************)
\* no method enabled by default
DefaultAuthMethodsNone(c) == c.AuthMethods

DefaultAuthMethods(c) ==
    IF Len(c.AuthMethods) = 0
    THEN IF c.Credentials.present
         THEN <<UserPassAuthenticator(c.Credentials)>>
         ELSE <<NoAuthAuthenticator>>
    ELSE c.AuthMethods

\* for _, a := range conf.AuthMethods { server.authMethods[a.GetCode()] = a }
RECURSIVE BuildAuthMethods(_, _, _)
BuildAuthMethods(methods, i, m) ==
    IF i > Len(methods) THEN m
    ELSE BuildAuthMethods(methods, i + 1,
            [k \in DOMAIN m \cup {GetCode(methods[i])} |->
                IF k = GetCode(methods[i]) THEN methods[i] ELSE m[k]])

\* New returns the server; conf is the Config as New leaves it.
New(c) ==
    LET filled == [c EXCEPT
            !.AuthMethods = DefaultAuthMethods(c),
            !.Resolver = IF c.Resolver = "nil" THEN "DNSResolver" ELSE c.Resolver,
            !.Rules = IF c.Rules.kind = "nil" THEN PermitAll ELSE c.Rules,
            !.Logger = IF c.Logger = "nil" THEN "StandardLogger" ELSE c.Logger]
    IN  [conf |-> filled,
         server |-> [constructed |-> TRUE,
                     authMethods |-> BuildAuthMethods(filled.AuthMethods, 1, EmptyMethods),
                     isIPAllowed |-> DenyAll]]

(***************************************************************************)
(* Server.SetIPWhitelist and the predicate it installs.                    *)
(***************************************************************************)
\* the new entries added to the ones already there
SetIPWhitelistAppends(s, allowedIPs) ==
    [s EXCEPT !.isIPAllowed =
        [set |-> TRUE, allowedIPs |-> s.isIPAllowed.allowedIPs \o allowedIPs]]

SetIPWhitelist(s, allowedIPs) ==
    [s EXCEPT !.isIPAllowed = [set |-> TRUE, allowedIPs |-> allowedIPs]]

RECURSIVE ScanAllowed(_, _, _)
ScanAllowed(allowedIPs, ip, i) ==
    IF i > Len(allowedIPs) THEN FALSE
    ELSE IF Compare(ip, allowedIPs[i]) = 0 THEN TRUE
    ELSE ScanAllowed(allowedIPs, ip, i + 1)

\* the loop returning false at the first entry that differs
isIPAllowedFirstEntry(s, ip) ==
    /\ s.isIPAllowed.set
    /\ Len(s.isIPAllowed.allowedIPs) > 0
    /\ Compare(ip, s.isIPAllowed.allowedIPs[1]) = 0

\* s.isIPAllowed(ip)
isIPAllowed(s, ip) ==
    IF s.isIPAllowed.set THEN ScanAllowed(s.isIPAllowed.allowedIPs, ip, 1) ELSE FALSE

(***************************************************************************)
(* Connections.  A peer is the text of conn.RemoteAddr(): a host and,      *)
(* unless the transport has none, a port.                                  *)
(***************************************************************************)
\* a *net.TCPAddr: RemoteAddr().String() is IP.String() and the port
TCPPeer(host, port) == [tcp |-> TRUE, hasPort |-> TRUE, host |-> host, port |-> port]

\* the address of another transport, whose String() is "host:port"
TextPeer(host, port) == [tcp |-> FALSE, hasPort |-> TRUE, host |-> host, port |-> port]

\* a transport address without a port: net.SplitHostPort fails on it
PortlessPeer == [tcp |-> FALSE, hasPort |-> FALSE, host |-> Other, port |-> 0]

NoAuthContext == [Method |-> 255, Username |-> ""]

\* an AddrSpec: FQDN (its labels; none for an IP destination), IP and Port
AddrSpec(fqdn, ip, port) == [nil |-> FALSE, FQDN |-> fqdn, IP |-> ip, Port |-> port]

NilAddrSpec == [nil |-> TRUE, FQDN |-> <<>>, IP |-> ZeroAddr, Port |-> 0]

NoRequest ==
    [Command |-> 0, DestAddr |-> NilAddrSpec, AuthContext |-> NoAuthContext,
     RemoteAddr |-> NilAddrSpec]

\* what the client sent to the negotiation: nothing yet
NoAuthInput == [readOk |-> FALSE, methods |-> <<>>, user |-> "", password |-> ""]

\* a connection the listener has not handed out yet: what the listener knows
\* of it (peer), what ServeConn holds (pc, version, authContext, request and
\* the error it returns), and the record of what happened on it (bytes read,
\* frames written, stages entered, what the client presented, the decode
\* error, the command run)
NoConn ==
    [pc |-> "none", peer |-> PortlessPeer, origin |-> "", nread |-> 0,
     wr |-> <<>>, closed |-> FALSE, err |-> "", stages |-> <<>>,
     version |-> 0, presented |-> NoAuthInput, authContext |-> NoAuthContext,
     decodeErr |-> "", request |-> NoRequest,
     dispatched |-> "", dialed |-> FALSE, relayed |-> FALSE]

\* the connection as Accept returns it, before ServeConn has run
AcceptedConn(peer) == [NoConn EXCEPT !.pc = "accepted", !.peer = peer]

\* ServeConn returns err; the deferred conn.Close() runs
\* the deferred conn.Close() left out
ReturnLeavesOpen(k, err) == [k EXCEPT !.pc = "done", !.err = err]

Return(k, err) == [k EXCEPT !.pc = "done", !.err = err, !.closed = TRUE]

Enter(k, stage) == [k EXCEPT !.stages = Append(@, stage)]

(***************************************************************************)
(* ServeConn, up to the read of the version byte: the admission gate.      *)
(***************************************************************************)
\* the if / else-if chain over the peer's parsed address
AdmissionOrigin(s, ip) ==
    IF IsDockerNetwork(ip) THEN "docker"
    ELSE IF IsTailScale(ip) THEN "tailscale"
    ELSE IF isIPAllowed(s, ip) THEN "allowed"
    ELSE "denied"

\* the denial logged but not returned
ServeConnGateStepNoReturn(s, k) ==
    IF ~k.peer.hasPort
    THEN Return(k, "SplitHostPort")
    ELSE [Enter(k, "gate") EXCEPT !.origin = AdmissionOrigin(s, ParseAddr(k.peer.host)),
                                  !.pc = "version"]

ServeConnGateStep(s, k) ==
    IF ~k.peer.hasPort
    THEN Return(k, "SplitHostPort")
    ELSE LET ip == ParseAddr(k.peer.host)
             origin == AdmissionOrigin(s, ip)
             g == [Enter(k, "gate") EXCEPT !.origin = origin]
         IN  IF origin = "denied"
             THEN Return(g, "not allowed IP address")
             ELSE [g EXCEPT !.pc = "version"]

\* an allow-list that the connection it admits uses up
ServeConnGateUsesUpList(c) ==
    /\ mainpc # "exit"
    /\ conns[c].pc = "accepted"
    /\ conns' = [conns EXCEPT ![c] = ServeConnGateStep(server, conns[c])]
    /\ server' = IF conns'[c].origin = "allowed"
                 THEN SetIPWhitelist(server, <<>>)
                 ELSE server
    /\ UNCHANGED <<env, mainpc, conf, serveErr, lastCall>>

ServeConnGate(c) ==
    /\ mainpc # "exit"
    /\ conns[c].pc = "accepted"
    /\ conns' = [conns EXCEPT ![c] = ServeConnGateStep(server, conns[c])]
    /\ UNCHANGED <<env, mainpc, conf, server, serveErr, lastCall>>

(***************************************************************************)
(* SpecGate: the server set up by either of its callers, then one          *)
(* connection up to its gate, over a wide set of peers and allow-lists.    *)
(* The library's caller: New, then SetIPWhitelist any number of times,     *)
(* then ServeConn.  The program: main over a wide set of environments,     *)
(* whose TCP listener hands out one connection.                            *)
(***************************************************************************)
NoEnv == [User |-> "", Password |-> "", AllowedDestFqdn |-> <<>>, AllowedIPs |-> <<>>]

GateHosts ==
    { Dotted(172, 16, 0, 0), Dotted(172, 31, 255, 255), Dotted(172, 20, 1, 2),
      Dotted(172, 15, 255, 255), Dotted(172, 32, 0, 0), Dotted(173, 16, 0, 1),
      Dotted(100, 64, 0, 0), Dotted(100, 127, 255, 255), Dotted(100, 100, 100, 100),
      Dotted(100, 63, 255, 255), Dotted(100, 128, 0, 0), Dotted(101, 64, 0, 1),
      Dotted(8, 8, 8, 8), Dotted(10, 0, 0, 1), Dotted(256, 1, 1, 1),
      Colon(Mapped(172, 16, 0, 1), 0), Colon(Mapped(100, 64, 0, 1), 0),
      Colon(Mapped(8, 8, 8, 8), 0), Colon(Doc6(1), 0), Colon(Doc6(1), 1), Other }

\* net.IP.String() prints an IPv4-mapped address dotted, so a TCP peer's
\* host is a valid dotted or (unmapped) colon text; the other texts come from
\* other transports.
TCPHost(h) ==
    /\ IsValid(ParseAddr(h))
    /\ (h.form = "colon" => SubSeq(h.b, 1, 12) # SubSeq(Mapped(0, 0, 0, 0), 1, 12))

GatePeers ==
    {IF TCPHost(h) THEN TCPPeer(h, 40000) ELSE TextPeer(h, 40000) : h \in GateHosts}
        \cup {PortlessPeer}

\* the addresses a caller may put in an allow-list
GateAllowedIPs ==
    { ParseAddr(Dotted(8, 8, 8, 8)), ParseAddr(Dotted(10, 0, 0, 1)),
      ParseAddr(Dotted(172, 32, 0, 0)), ParseAddr(Dotted(172, 16, 0, 0)),
      ParseAddr(Colon(Mapped(8, 8, 8, 8), 0)), ParseAddr(Colon(Doc6(1), 0)),
      ZeroAddr }

GateConfigs ==
    { EmptyConfig,
      [EmptyConfig EXCEPT !.Credentials = StaticCredentials("alice", "s3cret")] }

\* the entries of ALLOWED_IPS: two addresses and a text that is none
GateAllowedTexts == {Dotted(8, 8, 8, 8), Colon(Doc6(1), 0), Other}

GateEnvs ==
    [User : {"", "alice"}, Password : {"", "s3cret"},
     AllowedDestFqdn : {<<>>},
     AllowedIPs : SeqsUpTo(GateAllowedTexts, MaxList)]

InitGate ==
    /\ \/ env = NoEnv /\ conf \in GateConfigs
       \/ env \in GateEnvs /\ conf = EmptyConfig
    /\ mainpc = "start"
    /\ server = NoServer
    /\ conns = [c \in 1..MaxConns |-> NoConn]
    /\ serveErr = ""
    /\ lastCall = NotCalled

LibNew ==
    /\ mainpc = "start"
    /\ env = NoEnv
    /\ conf' = New(conf).conf
    /\ server' = New(conf).server
    /\ mainpc' = "built"
    /\ UNCHANGED <<env, conns, serveErr, lastCall>>

LibSetIPWhitelist ==
    /\ mainpc = "built"
    /\ conns[1].pc = "none"
    /\ \E allowedIPs \in SeqsUpTo(GateAllowedIPs, MaxList) :
          /\ server' = SetIPWhitelist(server, allowedIPs)
          /\ lastCall' = Called(allowedIPs)
    /\ UNCHANGED <<env, mainpc, conf, conns, serveErr>>

\* the caller hands one connection to ServeConn
LibServeConn ==
    /\ mainpc = "built"
    /\ conns[1].pc = "none"
    /\ \E peer \in GatePeers :
          conns' = [conns EXCEPT ![1] = AcceptedConn(peer)]
    /\ UNCHANGED <<env, mainpc, conf, server, serveErr, lastCall>>


(***************************************************************************)
(* Claims about the admission gate.                                        *)
(***************************************************************************)
\* the two reserved ranges, stated on the octets of a dotted host
InClassB(h) ==
    /\ h.form = "dotted"
    /\ \A i \in 1..4 : h.b[i] \in 0..255
    /\ h.b[1] = 172
    /\ h.b[2] \in 16..31

InCGNAT(h) ==
    /\ h.form = "dotted"
    /\ \A i \in 1..4 : h.b[i] \in 0..255
    /\ h.b[1] = 100
    /\ h.b[2] \in 64..127

\* ServeConn has taken its admission decision on connection c
Gated(c) == conns[c].pc \notin {"none", "accepted"} /\ conns[c].peer.hasPort

Admitted(c) == Gated(c) /\ conns[c].origin # "denied"

\* C1: a connection whose peer is an IPv4 address inside 172.16.0.0/12 or
\* 100.64.0.0/10 is admitted by the gate (it goes on to the version read),
\* whatever the allow-list holds and also when SetIPWhitelist was never
\* called.
C1_ReservedRangesAdmitted ==
    \A c \in 1..MaxConns :
        (Gated(c) /\ (InClassB(conns[c].peer.host) \/ InCGNAT(conns[c].peer.host)))
            => /\ conns[c].pc = "version"
               /\ conns[c].origin \in {"docker", "tailscale"}
               /\ ~conns[c].closed

\* an address at the upper edge of the /12 admitted under the deny-all
\* default, the allow-list never set
C1_Witness ==
    \E c \in 1..MaxConns :
        /\ conns[c].pc = "version"
        /\ conns[c].peer.host = Dotted(172, 31, 255, 255)
        /\ ~server.isIPAllowed.set

\* C2: a peer in neither reserved range is admitted if and only if its
\* address equals an entry of the list last given to SetIPWhitelist, as a
\* member of the set of entries: order and repetition do not matter.
C2_AllowListExactMatch ==
    \A c \in 1..MaxConns :
        (Gated(c) /\ ~InClassB(conns[c].peer.host) /\ ~InCGNAT(conns[c].peer.host))
            => (Admitted(c) <=>
                    /\ server.isIPAllowed.set
                    /\ ParseAddr(conns[c].peer.host) \in Range(server.isIPAllowed.allowedIPs))

\* an allow-listed peer admitted on a match with the second entry of a list
\* whose first entry is another address
C2_Witness ==
    \E c \in 1..MaxConns :
        /\ Admitted(c)
        /\ conns[c].origin = "allowed"
        /\ conns[c].peer.host = Dotted(8, 8, 8, 8)
        /\ Len(server.isIPAllowed.allowedIPs) = 2
        /\ server.isIPAllowed.allowedIPs[1] # ParseAddr(Dotted(8, 8, 8, 8))


(***************************************************************************)
(* What ServeConn writes to the client.  A frame records the send: `ok`    *)
(* is FALSE when the write returned an error.                              *)
(***************************************************************************)
\* sendReply(conn, resp, addr): VER, REP, RSV and the bound address
ReplyFrame(resp, addr, ok) == [kind |-> "reply", code |-> resp, addr |-> addr, ok |-> ok]

\* the method-selection message {VER, METHOD}
MethodFrame(code) == [kind |-> "method", code |-> code, addr |-> NilAddrSpec, ok |-> TRUE]

\* the username/password status message {VER, STATUS}
AuthStatusFrame(status) == [kind |-> "authstatus", code |-> status, addr |-> NilAddrSpec, ok |-> TRUE]

Replies(k) == SelectSeq(k.wr, LAMBDA f : f.kind = "reply")

(***************************************************************************)
(* ServeConn: the version byte.                                            *)
(***************************************************************************)
\* what the read of the version byte can yield
VersionInputs ==
    {[readOk |-> FALSE, byte |-> 0]} \cup {[readOk |-> TRUE, byte |-> v] : v \in {0, 4, 5, 6, 255}}

\* only versions above the supported one rejected
ServeConnVersionStepAbove(k, in) ==
    LET v == Enter(k, "version")
    IN  IF ~in.readOk
        THEN Return(v, "failed to get version byte")
        ELSE LET r == [v EXCEPT !.nread = @ + 1, !.version = in.byte]
             IN  IF in.byte > socks5Version
                 THEN Return(r, "unsupported SOCKS version")
                 ELSE [r EXCEPT !.pc = "auth"]

ServeConnVersionStep(k, in) ==
    LET v == Enter(k, "version")
    IN  IF ~in.readOk
        THEN Return(v, "failed to get version byte")
        ELSE LET r == [v EXCEPT !.nread = @ + 1, !.version = in.byte]
             IN  IF in.byte # socks5Version
                 THEN Return(r, "unsupported SOCKS version")
                 ELSE [r EXCEPT !.pc = "auth"]

ServeConnVersion(c) ==
    /\ mainpc # "exit"
    /\ conns[c].pc = "version"
    /\ \E in \in VersionInputs :
          conns' = [conns EXCEPT ![c] = ServeConnVersionStep(conns[c], in)]
    /\ UNCHANGED <<env, mainpc, conf, server, serveErr, lastCall>>

(***************************************************************************)
(* Authentication: Server.authenticate and the two default authenticators. *)
(***************************************************************************)
\* CredentialStore.Valid
Valid(creds, user, password) == <<user, password>> \in creds.m

\* the first method of the client's list that the server has
SelectMethod(s, methods) ==
    LET idx == {i \in DOMAIN methods : methods[i] \in DOMAIN s.authMethods}
    IN  IF idx = {} THEN 255
        ELSE methods[CHOOSE i \in idx : \A j \in idx : i <= j]

AuthFailure(err, frames, n) ==
    [ok |-> FALSE, err |-> err, ctx |-> NoAuthContext, wr |-> frames, n |-> n]

AuthSuccess(ctx, frames, n) ==
    [ok |-> TRUE, err |-> "", ctx |-> ctx, wr |-> frames, n |-> n]

\* Authenticator.Authenticate of the method chosen
Authenticate(cator, in, n) ==
    IF cator.kind = "UserPass"
    THEN LET m == n + 2 + Len(in.user) + 1 + Len(in.password)
         IN  IF Valid(cator.creds, in.user, in.password)
             THEN AuthSuccess([Method |-> cator.code, Username |-> in.user],
                              <<MethodFrame(cator.code), AuthStatusFrame(0)>>, m)
             ELSE AuthFailure("user authentication failed",
                              <<MethodFrame(cator.code), AuthStatusFrame(1)>>, m)
    ELSE AuthSuccess([Method |-> cator.code, Username |-> ""],
                     <<MethodFrame(cator.code)>>, n)

authenticate(s, in) ==
    IF ~in.readOk
    THEN AuthFailure("failed to get auth methods", <<>>, 0)
    ELSE LET n == 1 + Len(in.methods)
             m == SelectMethod(s, in.methods)
         IN  IF m = 255
             THEN AuthFailure("no supported authentication mechanism",
                              <<MethodFrame(255)>>, n)
             ELSE Authenticate(s.authMethods[m], in, n)

\* what a client can send to the negotiation
AuthInputs ==
    { NoAuthInput,
      [readOk |-> TRUE, methods |-> <<0>>, user |-> "", password |-> ""],
      [readOk |-> TRUE, methods |-> <<2>>, user |-> "alice", password |-> "s3cret"],
      [readOk |-> TRUE, methods |-> <<2>>, user |-> "alice", password |-> "wrong"],
      [readOk |-> TRUE, methods |-> <<2>>, user |-> "bob", password |-> "s3cret"] }

\* the error of authenticate dropped
ServeConnAuthStepIgnoresError(s, k, in) ==
    LET r == authenticate(s, in)
    IN  [Enter(k, "auth") EXCEPT !.nread = @ + r.n, !.wr = @ \o r.wr, !.presented = in,
                                 !.pc = "request", !.authContext = r.ctx]

ServeConnAuthStep(s, k, in) ==
    LET r == authenticate(s, in)
        a == [Enter(k, "auth") EXCEPT !.nread = @ + r.n, !.wr = @ \o r.wr,
                                      !.presented = in]
    IN  IF ~r.ok
        THEN Return(a, "failed to authenticate")
        ELSE [a EXCEPT !.pc = "request", !.authContext = r.ctx]

ServeConnAuth(c) ==
    /\ mainpc # "exit"
    /\ conns[c].pc = "auth"
    /\ \E in \in AuthInputs :
          conns' = [conns EXCEPT ![c] = ServeConnAuthStep(server, conns[c], in)]
    /\ UNCHANGED <<env, mainpc, conf, server, serveErr, lastCall>>

(***************************************************************************)
(* Request decoding: NewRequest, and the stamping of the request.          *)
(***************************************************************************)
\* the bytes of an address on the wire, for its address type
RECURSIVE FQDNLen(_)
FQDNLen(labels) ==
    IF Len(labels) = 0 THEN 0
    ELSE IF Len(labels) = 1 THEN Len(labels[1])
    ELSE Len(labels[1]) + 1 + FQDNLen(Tail(labels))

AddrWireLen(atyp, dest) ==
    IF atyp = 1 THEN 4 + 2
    ELSE IF atyp = 4 THEN 16 + 2
    ELSE IF atyp = 3 THEN 1 + FQDNLen(dest.FQDN) + 2
    ELSE 0

NewRequest(in) ==
    IF ~in.readOk
    THEN [ok |-> FALSE, err |-> "failed to get command version", n |-> 0, request |-> NoRequest]
    ELSE IF in.ver # socks5Version
    THEN [ok |-> FALSE, err |-> "unsupported command version", n |-> 3, request |-> NoRequest]
    ELSE IF in.atyp \notin {1, 3, 4}
    THEN [ok |-> FALSE, err |-> "ErrUnrecognizedAddrType", n |-> 4, request |-> NoRequest]
    ELSE [ok |-> TRUE, err |-> "", n |-> 4 + AddrWireLen(in.atyp, in.dest),
          request |-> [NoRequest EXCEPT !.Command = in.cmd, !.DestAddr = in.dest]]

HexDigit(ch) ==
    IF ch \in 48..57 THEN ch - 48
    ELSE IF ch \in 97..102 THEN ch - 87
    ELSE IF ch \in 65..70 THEN ch - 55
    ELSE -1

\* string(client.IP): the raw bytes of the address taken as a text.  Four
\* bytes spell an address only as "h::h", "::hh" or "hh::", an IPv6 one.
StringOfIP(b) ==
    IF Len(b) # 4 THEN Other
    ELSE IF HexDigit(b[1]) >= 0 /\ b[2] = 58 /\ b[3] = 58 /\ HexDigit(b[4]) >= 0
    THEN Colon(<<0, HexDigit(b[1]), 0, 0, 0, 0, 0, 0, 0, 0, 0, 0, 0, 0, 0, HexDigit(b[4])>>, 0)
    ELSE IF b[1] = 58 /\ b[2] = 58 /\ HexDigit(b[3]) >= 0 /\ HexDigit(b[4]) >= 0
    THEN Colon(<<0, 0, 0, 0, 0, 0, 0, 0, 0, 0, 0, 0, 0, 0, 0,
                 16 * HexDigit(b[3]) + HexDigit(b[4])>>, 0)
    ELSE IF HexDigit(b[1]) >= 0 /\ HexDigit(b[2]) >= 0 /\ b[3] = 58 /\ b[4] = 58
    THEN Colon(<<0, 16 * HexDigit(b[1]) + HexDigit(b[2]),
                 0, 0, 0, 0, 0, 0, 0, 0, 0, 0, 0, 0, 0, 0>>, 0)
    ELSE Other

\* request.RemoteAddr as ServeConn sets it, for a *net.TCPAddr only
RemoteAddrOf(peer) ==
    IF peer.tcp
    THEN AddrSpec(<<>>, ParseAddr(StringOfIP(peer.host.b)), peer.port)
    ELSE NilAddrSpec

\* a destination host name, as its labels
ApiExampleCom == <<"api", "example", "com">>

EvilOrg == <<"evil", "org">>

\* what a client can send as its request
RequestInputs ==
    { [readOk |-> FALSE, ver |-> 0, cmd |-> 0, atyp |-> 0, dest |-> NilAddrSpec],
      [readOk |-> TRUE, ver |-> 4, cmd |-> 1, atyp |-> 1, dest |-> NilAddrSpec],
      [readOk |-> TRUE, ver |-> 5, cmd |-> 1, atyp |-> 2, dest |-> NilAddrSpec],
      [readOk |-> TRUE, ver |-> 5, cmd |-> 1, atyp |-> 3,
       dest |-> AddrSpec(ApiExampleCom, ZeroAddr, 443)],
      [readOk |-> TRUE, ver |-> 5, cmd |-> 1, atyp |-> 3,
       dest |-> AddrSpec(EvilOrg, ZeroAddr, 80)],
      [readOk |-> TRUE, ver |-> 5, cmd |-> 2, atyp |-> 1,
       dest |-> AddrSpec(<<>>, ParseAddr(Dotted(1, 2, 3, 4)), 80)],
      [readOk |-> TRUE, ver |-> 5, cmd |-> 3, atyp |-> 1,
       dest |-> AddrSpec(<<>>, ParseAddr(Dotted(0, 0, 0, 0)), 0)],
      [readOk |-> TRUE, ver |-> 5, cmd |-> 9, atyp |-> 3,
       dest |-> AddrSpec(ApiExampleCom, ZeroAddr, 443)] }

\* the reply code "address type not supported"
addrTypeNotSupported == 8

\* the error of NewRequest logged and the request handled all the same
ServeConnRequestStepFallsThrough(k, in, sendOk) ==
    LET r == NewRequest(in)
        d == [Enter(k, "request") EXCEPT !.nread = @ + r.n, !.decodeErr = r.err]
    IN  [d EXCEPT !.pc = "handle",
                  !.request = [r.request EXCEPT !.AuthContext = k.authContext,
                                                !.RemoteAddr = RemoteAddrOf(k.peer)]]

\* the reply sent for every decode error
ServeConnRequestStepAlwaysReplies(k, in, sendOk) ==
    LET r == NewRequest(in)
        d == [Enter(k, "request") EXCEPT !.nread = @ + r.n, !.decodeErr = r.err]
    IN  IF ~r.ok
        THEN LET w == [d EXCEPT !.wr = Append(@, ReplyFrame(addrTypeNotSupported, NilAddrSpec, sendOk))]
             IN  IF ~sendOk
                 THEN Return(w, "failed to send reply")
                 ELSE Return(w, "failed to read destination address")
        ELSE [d EXCEPT !.pc = "handle",
                       !.request = [r.request EXCEPT !.AuthContext = k.authContext,
                                                     !.RemoteAddr = RemoteAddrOf(k.peer)]]

ServeConnRequestStep(k, in, sendOk) ==
    LET r == NewRequest(in)
        d == [Enter(k, "request") EXCEPT !.nread = @ + r.n, !.decodeErr = r.err]
    IN  IF ~r.ok
        THEN IF r.err = "ErrUnrecognizedAddrType"
             THEN LET w == [d EXCEPT !.wr = Append(@, ReplyFrame(addrTypeNotSupported, NilAddrSpec, sendOk))]
                  IN  IF ~sendOk
                      THEN Return(w, "failed to send reply")
                      ELSE Return(w, "failed to read destination address: ErrUnrecognizedAddrType")
             ELSE Return(d, "failed to read destination address")
        ELSE [d EXCEPT !.pc = "handle",
                       !.request = [r.request EXCEPT !.AuthContext = k.authContext,
                                                     !.RemoteAddr = RemoteAddrOf(k.peer)]]

ServeConnRequest(c) ==
    /\ mainpc # "exit"
    /\ conns[c].pc = "request"
    /\ \E in \in RequestInputs, sendOk \in BOOLEAN :
          conns' = [conns EXCEPT ![c] = ServeConnRequestStep(conns[c], in, sendOk)]
    /\ UNCHANGED <<env, mainpc, conf, server, serveErr, lastCall>>


(***************************************************************************)
(* Request handling: rewrite (none configured), the rule set, then the     *)
(* command.                                                                *)
(***************************************************************************)
successReply == 0

serverFailure == 1

ruleFailure == 2

hostUnreachable == 4

connectionRefused == 5

commandNotSupported == 7

ConnectCommand == 1

BindCommand == 2

AssociateCommand == 3

\* a host matches a pattern when they have the same labels, "*" standing for
\* any one label
MatchPattern(pattern, host) ==
    /\ Len(host) = Len(pattern)
    /\ \A i \in 1..Len(pattern) : pattern[i] = "*" \/ pattern[i] = host[i]

\* RuleSet.Allow
Allow(rules, req) ==
    IF rules.kind = "PermitDestAddrPattern"
    THEN MatchPattern(rules.pattern, req.DestAddr.FQDN)
    ELSE TRUE

\* the local address of the outbound connection or of the listener
BoundAddr == AddrSpec(<<>>, ParseAddr(Dotted(10, 0, 0, 5)), 50000)

Handled(frames, err, cmd, dialed, relayed) ==
    [wr |-> frames, err |-> err, dispatched |-> cmd, dialed |-> dialed, relayed |-> relayed]

\* what the network does to the command: nothing wrong, or one failure
HandleOutcomes == {"ok", "resolve failed", "dial refused", "send failed", "relay error"}

handleConnect(req, out) ==
    IF Len(req.DestAddr.FQDN) > 0 /\ out = "resolve failed"
    THEN Handled(<<ReplyFrame(hostUnreachable, NilAddrSpec, TRUE)>>,
                 "failed to resolve destination", "CONNECT", FALSE, FALSE)
    ELSE IF out = "dial refused"
    THEN Handled(<<ReplyFrame(connectionRefused, NilAddrSpec, TRUE)>>,
                 "connect failed", "CONNECT", TRUE, FALSE)
    ELSE IF out = "send failed"
    THEN Handled(<<ReplyFrame(successReply, BoundAddr, FALSE)>>,
                 "failed to send reply", "CONNECT", TRUE, FALSE)
    ELSE Handled(<<ReplyFrame(successReply, BoundAddr, TRUE)>>,
                 IF out = "relay error" THEN "relay failed" ELSE "",
                 "CONNECT", TRUE, TRUE)

handleBind(req, out) ==
    IF out \in {"resolve failed", "dial refused"}
    THEN Handled(<<ReplyFrame(serverFailure, NilAddrSpec, TRUE)>>,
                 "bind failed", "BIND", FALSE, FALSE)
    ELSE IF out = "send failed"
    THEN Handled(<<ReplyFrame(successReply, BoundAddr, FALSE)>>,
                 "failed to send reply", "BIND", FALSE, FALSE)
    ELSE Handled(<<ReplyFrame(successReply, BoundAddr, TRUE),
                   ReplyFrame(successReply, req.DestAddr, TRUE)>>,
                 IF out = "relay error" THEN "relay failed" ELSE "",
                 "BIND", FALSE, TRUE)

handleAssociate(req, out) ==
    IF out = "send failed"
    THEN Handled(<<ReplyFrame(successReply, BoundAddr, FALSE)>>,
                 "failed to send reply", "ASSOCIATE", FALSE, FALSE)
    ELSE Handled(<<ReplyFrame(successReply, BoundAddr, TRUE)>>, "",
                 "ASSOCIATE", FALSE, FALSE)

handleRequest(c, req, out) ==
    IF ~Allow(c.Rules, req)
    THEN Handled(<<ReplyFrame(ruleFailure, NilAddrSpec, out # "send failed")>>,
                 IF out = "send failed" THEN "failed to send reply"
                 ELSE "not allowed by ruleset", "denied", FALSE, FALSE)
    ELSE IF req.Command = ConnectCommand THEN handleConnect(req, out)
    ELSE IF req.Command = BindCommand THEN handleBind(req, out)
    ELSE IF req.Command = AssociateCommand THEN handleAssociate(req, out)
    ELSE Handled(<<ReplyFrame(commandNotSupported, NilAddrSpec, out # "send failed")>>,
                 IF out = "send failed" THEN "failed to send reply"
                 ELSE "unsupported command", "unsupported", FALSE, FALSE)

ServeConnHandleStep(c, k, out) ==
    LET r == handleRequest(c, k.request, out)
        h == [Enter(k, "handle") EXCEPT !.wr = @ \o r.wr, !.dispatched = r.dispatched,
                                        !.dialed = r.dialed, !.relayed = r.relayed]
    IN  IF r.err # ""
        THEN Return(h, "failed to handle request")
        ELSE Return(h, "")

\* the connection served inside the accept loop, its error ending Serve
ServeConnHandleInline(c) ==
    /\ mainpc # "exit"
    /\ conns[c].pc = "handle"
    /\ \E out \in HandleOutcomes :
          LET k == ServeConnHandleStep(conf, conns[c], out)
          IN  /\ conns' = [conns EXCEPT ![c] = k]
              /\ mainpc' = IF k.err # "" THEN "exit" ELSE mainpc
              /\ serveErr' = IF k.err # "" THEN k.err ELSE serveErr
    /\ UNCHANGED <<env, conf, server, lastCall>>

ServeConnHandle(c) ==
    /\ mainpc # "exit"
    /\ conns[c].pc = "handle"
    /\ \E out \in HandleOutcomes :
          conns' = [conns EXCEPT ![c] = ServeConnHandleStep(conf, conns[c], out)]
    /\ UNCHANGED <<env, mainpc, conf, server, serveErr, lastCall>>

(***************************************************************************)
(* The program: main, ListenAndServe and Serve.                            *)
(***************************************************************************)
ExamplePattern == <<"*", "example", "com">>

\* the environments of the program: PROXY_USER, PROXY_PASSWORD,
\* ALLOWED_DEST_FQDN, and ALLOWED_IPS split at its commas
ProgEnvs ==
    { NoEnv,
      [NoEnv EXCEPT !.User = "alice", !.Password = "s3cret",
                    !.AllowedDestFqdn = ExamplePattern],
      [NoEnv EXCEPT !.AllowedIPs = <<Other, Dotted(8, 8, 8, 8)>>],
      [NoEnv EXCEPT !.User = "alice"],
      [NoEnv EXCEPT !.Password = "s3cret"] }

\* the peers of the program's connections
ProgPeers ==
    { TCPPeer(Dotted(172, 17, 0, 2), 40000), TCPPeer(Dotted(8, 8, 8, 8), 40001) }

Init ==
    /\ env \in ProgEnvs
    /\ mainpc = "start"
    /\ conf = EmptyConfig
    /\ server = NoServer
    /\ conns = [c \in 1..MaxConns |-> NoConn]
    /\ serveErr = ""
    /\ lastCall = NotCalled

\* username/password only when both parameters are set
MainConfigBothSet(e) ==
    [EmptyConfig EXCEPT
        !.AuthMethods =
            IF e.User # "" /\ e.Password # ""
            THEN <<UserPassAuthenticator(StaticCredentials(e.User, e.Password))>>
            ELSE <<>>,
        !.Rules =
            IF Len(e.AllowedDestFqdn) # 0
            THEN PermitDestAddrPattern(e.AllowedDestFqdn)
            ELSE NilRules]

\* the rule set left out
MainConfigNoRules(e) ==
    [EmptyConfig EXCEPT
        !.AuthMethods =
            IF e.User \o e.Password # ""
            THEN <<UserPassAuthenticator(StaticCredentials(e.User, e.Password))>>
            ELSE <<>>]

\* the Config main builds from its parameters
MainConfig(e) ==
    [EmptyConfig EXCEPT
        !.AuthMethods =
            IF e.User \o e.Password # ""
            THEN <<UserPassAuthenticator(StaticCredentials(e.User, e.Password))>>
            ELSE <<>>,
        !.Rules =
            IF Len(e.AllowedDestFqdn) # 0
            THEN PermitDestAddrPattern(e.AllowedDestFqdn)
            ELSE NilRules]

MainNew ==
    /\ mainpc = "start"
    /\ conf = EmptyConfig
    /\ conf' = New(MainConfig(env)).conf
    /\ server' = New(MainConfig(env)).server
    /\ mainpc' = "new"
    /\ UNCHANGED <<env, conns, serveErr, lastCall>>

\* whitelist[i], _ = netip.ParseAddr(ip)
MainWhitelist(allowedIPs) == [i \in 1..Len(allowedIPs) |-> ParseAddr(allowedIPs[i])]

MainSetIPWhitelist ==
    /\ mainpc = "new"
    /\ server' = IF Len(env.AllowedIPs) > 0
                 THEN SetIPWhitelist(server, MainWhitelist(env.AllowedIPs))
                 ELSE server
    /\ lastCall' = IF Len(env.AllowedIPs) > 0
                   THEN Called(MainWhitelist(env.AllowedIPs))
                   ELSE lastCall
    /\ mainpc' = "listen"
    /\ UNCHANGED <<env, conf, conns, serveErr>>

\* net.Listen succeeds and Serve starts, or it fails and main exits
ListenAndServe ==
    /\ mainpc = "listen"
    /\ \E ok \in BOOLEAN :
          /\ mainpc' = IF ok THEN "serve" ELSE "exit"
          /\ serveErr' = IF ok THEN "" ELSE "listen failed"
    /\ UNCHANGED <<env, conf, server, conns, lastCall>>

\* one round of Serve's loop: Accept returns a connection, go ServeConn
Serve(c) ==
    /\ mainpc = "serve"
    /\ conns[c].pc = "none"
    /\ \A d \in 1..(c - 1) : conns[d].pc # "none"
    /\ \E peer \in ProgPeers :
          conns' = [conns EXCEPT ![c] = AcceptedConn(peer)]
    /\ UNCHANGED <<env, mainpc, conf, server, serveErr, lastCall>>

\* Accept returns an error: Serve returns it and main exits through
\* logrus.Fatal
ServeAcceptError ==
    /\ mainpc = "serve"
    /\ mainpc' = "exit"
    /\ serveErr' = "accept failed"
    /\ UNCHANGED <<env, conf, server, conns, lastCall>>

ServeConn(c) ==
    \/ ServeConnGate(c)
    \/ ServeConnVersion(c)
    \/ ServeConnAuth(c)
    \/ ServeConnRequest(c)
    \/ ServeConnHandle(c)

Next ==
    \/ MainNew
    \/ MainSetIPWhitelist
    \/ ListenAndServe
    \/ \E c \in 1..MaxConns : Serve(c)
    \/ ServeAcceptError
    \/ \E c \in 1..MaxConns : ServeConn(c)

Spec == Init /\ [][Next]_vars

(***************************************************************************)
(* SpecGate, assembled: both callers and the gate of the one connection.   *)
(***************************************************************************)
\* Serve on the program's TCP listener: the peer is a *net.TCPAddr
ServeTCP ==
    /\ mainpc = "serve"
    /\ conns[1].pc = "none"
    /\ \E peer \in {p \in GatePeers : p.tcp} :
          conns' = [conns EXCEPT ![1] = AcceptedConn(peer)]
    /\ UNCHANGED <<env, mainpc, conf, server, serveErr, lastCall>>

NextGate ==
    \/ LibNew
    \/ LibSetIPWhitelist
    \/ LibServeConn
    \/ MainNew
    \/ MainSetIPWhitelist
    \/ ListenAndServe
    \/ ServeTCP
    \/ ServeAcceptError
    \/ ServeConnGate(1)

SpecGate == InitGate /\ [][NextGate]_vars


(***************************************************************************)
(* SpecNew: New applied to a bounded set of Configs.                       *)
(***************************************************************************)
AliceCreds == StaticCredentials("alice", "s3cret")

BobCreds == StaticCredentials("bob", "hunter2")

NewAuthenticators ==
    { NoAuthAuthenticator, UserPassAuthenticator(AliceCreds),
      UserPassAuthenticator(BobCreds), CustomAuthenticator(1) }

NewConfigs ==
    [AuthMethods : SeqsUpTo(NewAuthenticators, MaxAuth),
     Credentials : {NoCreds, AliceCreds, BobCreds},
     Resolver : {"nil", "custom"},
     Rules : {NilRules, PermitDestAddrPattern(ExamplePattern)},
     Logger : {"nil"}]

InitNew ==
    /\ env = NoEnv
    /\ mainpc = "start"
    /\ conf \in NewConfigs
    /\ server = NoServer
    /\ conns = [c \in 1..MaxConns |-> NoConn]
    /\ serveErr = ""
    /\ lastCall = NotCalled

NextNew == LibNew

SpecNew == InitNew /\ [][NextNew]_vars

(***************************************************************************)
(* Claims about ServeConn, checked on the program.                         *)
(***************************************************************************)
Entered(c, stage) == stage \in Range(conns[c].stages)

\* C3: when the gate denies a connection, ServeConn ends with the connection
\* closed and with no protocol interaction: nothing read from the client,
\* nothing written to it, and neither the version check, the authentication
\* nor the request decoding started.
C3_DeniedNoInteraction ==
    \A c \in 1..MaxConns :
        conns[c].origin = "denied"
            => /\ conns[c].pc = "done"
               /\ conns[c].closed
               /\ conns[c].err = "not allowed IP address"
               /\ conns[c].nread = 0
               /\ conns[c].wr = <<>>
               /\ conns[c].stages = <<"gate">>
               /\ conns[c].authContext = NoAuthContext
               /\ conns[c].request = NoRequest
               /\ conns[c].dispatched = ""

\* a public address denied under the deny-all default
C3_Witness ==
    \E c \in 1..MaxConns :
        /\ conns[c].origin = "denied"
        /\ conns[c].pc = "done"
        /\ conns[c].peer.host = Dotted(8, 8, 8, 8)
        /\ ~server.isIPAllowed.set

\* C4: an admitted connection whose first byte is not 5 gets no byte written,
\* never reaches authentication or request decoding, and is closed when
\* ServeConn returns its error.
C4_BadVersionNoReply ==
    \A c \in 1..MaxConns :
        (Admitted(c) /\ conns[c].nread >= 1 /\ conns[c].version # 5)
            => /\ conns[c].pc = "done"
               /\ conns[c].closed
               /\ conns[c].err = "unsupported SOCKS version"
               /\ conns[c].wr = <<>>
               /\ conns[c].nread = 1
               /\ conns[c].stages = <<"gate", "version">>
               /\ conns[c].request = NoRequest

\* a SOCKS4 client on an admitted connection
C4_Witness ==
    \E c \in 1..MaxConns :
        /\ Admitted(c)
        /\ conns[c].version = 4
        /\ conns[c].nread = 1
        /\ conns[c].closed

\* C5: a decode failure with the unrecognized-address-type error sends
\* exactly one reply frame, code 8 with no bound address, then closes without
\* calling handleRequest; any other decode failure sends no reply frame
\* before closing.
C5_ReplyOnlyForUnrecognizedAddrType ==
    \A c \in 1..MaxConns :
        conns[c].decodeErr # ""
            => /\ conns[c].pc = "done"
               /\ conns[c].closed
               /\ conns[c].err # ""
               /\ ~Entered(c, "handle")
               /\ conns[c].dispatched = ""
               /\ IF conns[c].decodeErr = "ErrUnrecognizedAddrType"
                  THEN /\ Len(Replies(conns[c])) = 1
                       /\ Replies(conns[c])[1].code = 8
                       /\ Replies(conns[c])[1].addr = NilAddrSpec
                       /\ conns[c].wr[Len(conns[c].wr)].kind = "reply"
                  ELSE Replies(conns[c]) = <<>>

\* address type 2 answered with code 8, the frame written
C5_Witness ==
    \E c \in 1..MaxConns :
        /\ conns[c].decodeErr = "ErrUnrecognizedAddrType"
        /\ conns[c].closed
        /\ Len(Replies(conns[c])) = 1
        /\ Replies(conns[c])[1].ok

UserPassConfigured == env.User # "" \/ env.Password # ""

\* the client took part in the username/password negotiation
PresentedUserPass(c) ==
    /\ Entered(c, "auth")
    /\ conns[c].presented.readOk
    /\ 2 \in Range(conns[c].presented.methods)

\* C6: with username/password authentication configured, a connection that
\* presents credentials other than the configured pair fails authentication
\* (no request decoded, handleRequest not called, connection closed); one
\* that presents the configured pair goes on to request decoding with the
\* authentication context of the negotiation.
C6_UserPassDecides ==
    \A c \in 1..MaxConns :
        (UserPassConfigured /\ server.constructed /\ PresentedUserPass(c))
            => IF <<conns[c].presented.user, conns[c].presented.password>>
                    = <<env.User, env.Password>>
               THEN /\ conns[c].pc = "request" \/ Entered(c, "request")
                    /\ conns[c].authContext
                         = [Method |-> 2, Username |-> conns[c].presented.user]
                    /\ (conns[c].pc = "handle" \/ Entered(c, "handle"))
                         => conns[c].request.AuthContext = conns[c].authContext
               ELSE /\ conns[c].pc = "done"
                    /\ conns[c].closed
                    /\ conns[c].err = "failed to authenticate"
                    /\ ~Entered(c, "request")
                    /\ ~Entered(c, "handle")
                    /\ conns[c].request = NoRequest

\* alice with the right secret reached handleRequest, on a server where
\* another connection with a wrong secret was closed
C6_Witness ==
    \E c, d \in 1..MaxConns :
        /\ UserPassConfigured
        /\ Entered(c, "handle")
        /\ conns[c].request.AuthContext = [Method |-> 2, Username |-> "alice"]
        /\ conns[d].presented.password = "wrong"
        /\ conns[d].closed

PatternConfigured == Len(env.AllowedDestFqdn) # 0

\* a host under example.com, one label deep
MatchesExample(host) == Len(host) = 3 /\ host[2] = "example" /\ host[3] = "com"

RuleDenied(c) ==
    /\ conns[c].pc = "done"
    /\ conns[c].closed
    /\ conns[c].err = "failed to handle request"
    /\ Len(Replies(conns[c])) = 1
    /\ Replies(conns[c])[1].code = 2
    /\ conns[c].dispatched = "denied"
    /\ ~conns[c].dialed
    /\ ~conns[c].relayed

Dispatched(c) ==
    /\ conns[c].dispatched \in {"CONNECT", "BIND", "ASSOCIATE", "unsupported"}
    /\ \A i \in DOMAIN conns[c].wr : conns[c].wr[i].code # 2 \/ conns[c].wr[i].kind # "reply"

\* C7: with ALLOWED_DEST_FQDN set, a decoded request whose host does not
\* match the pattern is answered with reply code 2, runs no command (no dial,
\* no relay) and the connection is closed, and a request whose host matches
\* goes on to the command; with no pattern nothing is denied by the rules.
C7_DestinationPattern ==
    \A c \in 1..MaxConns :
        Entered(c, "handle")
            => /\ env.AllowedDestFqdn \in {<<>>, ExamplePattern}
               /\ IF PatternConfigured /\ ~MatchesExample(conns[c].request.DestAddr.FQDN)
                  THEN RuleDenied(c)
                  ELSE Dispatched(c)

\* evil.org denied with code 2 while api.example.com was dialed and relayed
C7_Witness ==
    \E c, d \in 1..MaxConns :
        /\ PatternConfigured
        /\ RuleDenied(c)
        /\ conns[c].request.DestAddr.FQDN = EvilOrg
        /\ conns[d].request.DestAddr.FQDN = ApiExampleCom
        /\ conns[d].dispatched = "CONNECT"
        /\ conns[d].relayed

\* C8: a step of one connection, its failure at any stage included, changes
\* neither another connection nor the accept loop nor the server; and Serve
\* stops only when Accept returns an error.
C8_FailuresAreLocal ==
    [][ /\ \A c \in 1..MaxConns :
              conns'[c] # conns[c]
                  => /\ \A d \in 1..MaxConns \ {c} : conns'[d] = conns[d]
                     /\ mainpc' = mainpc
                     /\ serveErr' = serveErr
                     /\ server' = server
                     /\ conf' = conf
        /\ (mainpc = "serve" /\ mainpc' # "serve")
              => (serveErr' = "accept failed" /\ conns' = conns) ]_vars

\* one connection denied, another failed in its request, and the loop still
\* accepting
C8_Witness ==
    /\ MaxConns >= 2
    /\ mainpc = "serve"
    /\ conns[1].pc = "done" /\ conns[1].err = "not allowed IP address"
    /\ conns[2].pc = "done" /\ conns[2].err = "failed to handle request"

(***************************************************************************)
(* Claims about New.                                                       *)
(***************************************************************************)
\* New runs in this step
NewReturns == ~server.constructed /\ server'.constructed

\* C9: after New the authenticators are never empty; with no method and no
\* credential store supplied they are exactly the no-auth method; and the
\* code of every supplied authenticator is a key of the method table.
C9_AuthenticatorsNeverEmpty ==
    /\ [](server.constructed
            => /\ DOMAIN server.authMethods # {}
               /\ Len(conf.AuthMethods) > 0
               /\ \A i \in DOMAIN conf.AuthMethods :
                     GetCode(conf.AuthMethods[i]) \in DOMAIN server.authMethods)
    /\ [][NewReturns
            => /\ (Len(conf.AuthMethods) = 0 /\ ~conf.Credentials.present)
                     => /\ conf'.AuthMethods = <<NoAuthAuthenticator>>
                        /\ DOMAIN server'.authMethods = {0}
                        /\ server'.authMethods[0] = NoAuthAuthenticator
               /\ \A i \in DOMAIN conf.AuthMethods :
                     GetCode(conf.AuthMethods[i]) \in DOMAIN server'.authMethods]_vars

\* a server built with the no-auth method alone and no credential store
C9_Witness ==
    /\ server.constructed
    /\ ~conf.Credentials.present
    /\ conf.AuthMethods = <<NoAuthAuthenticator>>
    /\ DOMAIN server.authMethods = {0}

\* C10: whenever Credentials is provided, New appends a
\* UserPassAuthenticator over it to the configured AuthMethods, whatever they
\* hold, so that username/password authentication is enabled; the no-auth
\* default is taken only when Credentials is absent and AuthMethods is nil.
C10_CredentialsEnableUserPass ==
    [][NewReturns
        => /\ conf.Credentials.present
                => /\ conf'.AuthMethods
                        = Append(conf.AuthMethods, UserPassAuthenticator(conf.Credentials))
                   /\ 2 \in DOMAIN server'.authMethods
                   /\ server'.authMethods[2] = UserPassAuthenticator(conf.Credentials)
           /\ (conf'.AuthMethods # conf.AuthMethods /\ ~conf.Credentials.present)
                => /\ Len(conf.AuthMethods) = 0
                   /\ conf'.AuthMethods = <<NoAuthAuthenticator>>]_vars


(***************************************************************************)
(* Further claims about the admission gate and the allow-list.             *)
(***************************************************************************)
\* a host text that is not a valid dotted IPv4 address
NotIPv4(h) == ~(h.form = "dotted" /\ \A i \in 1..4 : h.b[i] \in 0..255)

\* the latest SetIPWhitelist call listed this address
ListedInLastCall(ip) == lastCall.called /\ ip \in Range(lastCall.allowedIPs)

\* C13: a peer that is not a valid IPv4 address (an IPv6 address, the IPv6
\* form of a reserved address included, or a text that does not parse) is
\* never admitted by the two reserved-range rules: it is admitted if and
\* only if the allow-list predicate accepts its address.
C13_NonIPv4AllowListOnly ==
    \A c \in 1..MaxConns :
        (Gated(c) /\ NotIPv4(conns[c].peer.host))
            => /\ conns[c].origin \in {"allowed", "denied"}
               /\ conns[c].origin = "allowed"
                    <=> ListedInLastCall(ParseAddr(conns[c].peer.host))
               /\ conns[c].origin = "denied" <=> conns[c].closed

\* ::ffff:172.16.0.1 denied although 172.16.0.0 is in the allow-list and in
\* the /12
C13_Witness ==
    \E c \in 1..MaxConns :
        /\ Gated(c)
        /\ conns[c].peer.host = Colon(Mapped(172, 16, 0, 1), 0)
        /\ conns[c].origin = "denied"
        /\ ListedInLastCall(ParseAddr(Dotted(172, 16, 0, 0)))

\* the addresses the predicate is asked about
ProbeAddrs == GateAllowedIPs \cup {ParseAddr(h) : h \in GateHosts}

\* main is past its SetIPWhitelist step
MainPastWhitelist == mainpc \in {"listen", "serve", "exit"}

\* C14: the predicate denies every address from New until the first
\* SetIPWhitelist call, and after any calls it accepts exactly the entries
\* of the list of the latest call; the program makes no call when
\* ALLOWED_IPS is empty, and then admits the two reserved ranges only.
C14_PredicateIsLastList ==
    /\ \A ip \in ProbeAddrs : isIPAllowed(server, ip) <=> ListedInLastCall(ip)
    /\ (MainPastWhitelist /\ Len(env.AllowedIPs) = 0)
          => /\ ~lastCall.called
             /\ \A c \in 1..MaxConns :
                   Admitted(c)
                       => (InClassB(conns[c].peer.host) \/ InCGNAT(conns[c].peer.host))

\* the allow-list holds 10.0.0.1 alone and 8.8.8.8 is denied
C14_Witness ==
    \E c \in 1..MaxConns :
        /\ lastCall = Called(<<ParseAddr(Dotted(10, 0, 0, 1))>>)
        /\ Gated(c)
        /\ conns[c].peer.host = Dotted(8, 8, 8, 8)
        /\ conns[c].origin = "denied"

\* C17: a connection whose peer host does not parse as an IP address is
\* never admitted, whatever the allow-list holds; an entry that is not a
\* valid address, kept as the zero Addr, admits no client.
C17_UnparsablePeerNeverAdmitted ==
    \A c \in 1..MaxConns :
        (Gated(c) /\ ~IsValid(ParseAddr(conns[c].peer.host))) => ~Admitted(c)


(***************************************************************************)
(* Claims about the order of the stages and the end of ServeConn.          *)
(***************************************************************************)
StageOrder == <<"gate", "version", "auth", "request", "handle">>

IsPrefix(s, t) == Len(s) <= Len(t) /\ \A i \in 1..Len(s) : s[i] = t[i]

\* C11: the stages of a connection are entered in the order gate, version,
\* authentication, request decoding, request handling, each at most once and
\* only after the one before it succeeded: handleRequest is never called for
\* a connection that was not admitted, did not send version 5, did not
\* authenticate or whose request did not decode.
C11_StagesInOrder ==
    \A c \in 1..MaxConns :
        /\ IsPrefix(conns[c].stages, StageOrder)
        /\ Entered(c, "version") => Admitted(c)
        /\ Entered(c, "auth") => conns[c].version = socks5Version
        /\ Entered(c, "request")
              => /\ conns[c].authContext # NoAuthContext
                 /\ conns[c].authContext.Method \in DOMAIN server.authMethods
        /\ Entered(c, "handle")
              => /\ conns[c].decodeErr = ""
                 /\ conns[c].request # NoRequest
                 /\ Admitted(c)
                 /\ conns[c].version = socks5Version
                 /\ conns[c].authContext # NoAuthContext

\* a connection that went through the five stages and ended without error
C11_Witness ==
    \E c \in 1..MaxConns :
        /\ conns[c].stages = StageOrder
        /\ conns[c].pc = "done"
        /\ conns[c].err = ""

\* C12: the request handed to handleRequest carries the authentication
\* context of the connection and a remote address whose IP and port are
\* those of the transport peer, whatever the client sent.
C12_RequestCarriesPeer ==
    \A c \in 1..MaxConns :
        (conns[c].pc = "handle" \/ Entered(c, "handle"))
            => /\ conns[c].request.AuthContext = conns[c].authContext
               /\ conns[c].peer.tcp
                    => /\ ~conns[c].request.RemoteAddr.nil
                       /\ conns[c].request.RemoteAddr.IP = ParseAddr(conns[c].peer.host)
                       /\ conns[c].request.RemoteAddr.Port = conns[c].peer.port

\* the stage at which ServeConn returns this error
ErrStage(err) ==
    IF err = "not allowed IP address" THEN "gate"
    ELSE IF err \in {"failed to get version byte", "unsupported SOCKS version"} THEN "version"
    ELSE IF err = "failed to authenticate" THEN "auth"
    ELSE IF err \in {"failed to read destination address",
                     "failed to read destination address: ErrUnrecognizedAddrType",
                     "failed to send reply"} THEN "request"
    ELSE "handle"

Serving == mainpc \in {"serve", "exit"} \/ \E c \in 1..MaxConns : conns[c].pc # "none"

\* C15: in the program the allow-list predicate, the method table and the
\* configuration are written only before the accept loop starts, never
\* while a connection handler runs, so the admission decision for a peer
\* address is the same for every connection of the server.
C15_SetUpBeforeServing ==
    /\ [][Serving => (server' = server /\ conf' = conf /\ lastCall' = lastCall)]_vars
    /\ [](\A c \in 1..MaxConns :
             conns[c].pc # "none" => mainpc \in {"serve", "exit"})
    /\ [](\A c, d \in 1..MaxConns :
             (Gated(c) /\ Gated(d) /\ conns[c].peer.host = conns[d].peer.host)
                 => conns[c].origin = conns[d].origin)

\* two connections from 8.8.8.8, one after the other through the gate, both
\* admitted by the allow-list
C15_Witness ==
    \E c, d \in 1..MaxConns :
        /\ c # d
        /\ conns[c].peer.host = Dotted(8, 8, 8, 8) /\ conns[c].origin = "allowed"
        /\ conns[d].peer.host = Dotted(8, 8, 8, 8) /\ conns[d].origin = "allowed"
        /\ conns[c].pc = "done"

\* the connection went through a successful username/password negotiation
\* with the configured pair
NegotiatedUserPass(c) ==
    /\ PresentedUserPass(c)
    /\ conns[c].presented.user = env.User
    /\ conns[c].presented.password = env.Password
    /\ conns[c].authContext = [Method |-> 2, Username |-> env.User]
    /\ \E i \in DOMAIN conns[c].wr : conns[c].wr[i] = AuthStatusFrame(0)

\* C18: the program enables password authentication if and only if
\* PROXY_USER or PROXY_PASSWORD is non-empty; then the method table holds the
\* username/password method alone, and no connection reaches the request
\* decoding without a successful username/password negotiation; with both
\* empty the table holds the no-auth method alone.
C18_PasswordAuthIffCredentials ==
    server.constructed
        => /\ 2 \in DOMAIN server.authMethods <=> (env.User # "" \/ env.Password # "")
           /\ IF env.User = "" /\ env.Password = ""
              THEN /\ DOMAIN server.authMethods = {0}
                   /\ server.authMethods[0] = NoAuthAuthenticator
              ELSE /\ DOMAIN server.authMethods = {2}
                   /\ server.authMethods[2]
                        = UserPassAuthenticator(StaticCredentials(env.User, env.Password))
                   /\ \A c \in 1..MaxConns :
                         (conns[c].pc \in {"request", "handle"} \/ Entered(c, "request"))
                             => NegotiatedUserPass(c)

\* PROXY_USER alone set: the no-auth offer of a client refused, the
\* connection closed before the request stage
C18_Witness ==
    \E c \in 1..MaxConns :
        /\ env.User = "alice" /\ env.Password = ""
        /\ DOMAIN server.authMethods = {2}
        /\ conns[c].presented.methods = <<0>>
        /\ conns[c].err = "failed to authenticate"
        /\ ~Entered(c, "request")

====
